---- MODULE Spec2Model ----
(***************************************************************************)
(* A model of the terminal raycaster of src/main.rs: the Player (position, *)
(* facing, the map and screen grids it borrows), its operations mv, rotate *)
(* and render, and the main loop that drives them from key events.         *)
(*                                                                         *)
(* Numbers.  The program computes in f32.  The model uses fixed point:     *)
(*   - an angle is an integer number of ticks, one tick = pi/480, so that  *)
(*     the rotation step pi/32 (15 ticks), the field of view pi/1.5 (320   *)
(*     ticks) and the per-column increment fov/160 (2 ticks) are exact;    *)
(*   - sin and cos are a table of round(sin * SinScale);                   *)
(*   - a coordinate is an integer number of units, Cell units to a map     *)
(*     cell, with Cell chosen so that movt_step * sin and                  *)
(*     movt_step * sin / 6 are whole numbers of units.                     *)
(* The rounding of f32 additions is not modelled.                          *)
(*                                                                         *)
(* Specifications.                                                         *)
(*   Spec       the session from the entry of main: every key event and    *)
(*              every way main ends, over all key sequences.  render does  *)
(*              not touch the player or the map, and Spec leaves it and    *)
(*              the screen out of the loop.                                *)
(*   FrameSpec  the same loop with render before every read, for sessions  *)
(*              of at most MaxKeys key events.                             *)
(*   RaySpec    the while loop of render for one ray, on closed maps.      *)
(* A failure of a write to the terminal (the unwrap calls) and of          *)
(* disable_raw_mode are not modelled.                                      *)
(***************************************************************************)
EXTENDS Integers, Sequences, FiniteSets, TLC

VARIABLES x, y, rot, map, screen, pc, exit, raw_mode, cursor, shows, disables, keys, ray

vars == <<x, y, rot, map, screen, pc, exit, raw_mode, cursor, shows, disables, keys, ray>>

(***************************************************************************)
(* Bounds of the model.                                                    *)
(***************************************************************************)
\* How many cells below zero a coordinate is followed (the program sets no limit).
MinCoord == 1
\* Key events of a session whose frames are rendered (FrameSpec).
MaxKeys == 3
\* Largest width and height of the closed maps of RaySpec.
MaxDim == 4
\* RaySpec casts the rays whose angle is a multiple of this many ticks.
AngleStride == 8
\* Iterations after which the model stops following a ray.
MaxRaySteps == 400

(***************************************************************************)
(* Constants of the program.                                               *)
(***************************************************************************)
SinScale == 10000
Cell == 12 * SinScale
\* 2.0 * std::f32::consts::PI, in ticks
FullTurn == 960
\* pi / 32.0, in ticks
RotStep == 15
\* pi / 1.5, in ticks
Fov == 320
\* movt_step = 0.5, in units
movt_step == Cell \div 2
MapWidth == 19
MapHeight == 20
ScreenWidth == 160
ScreenHeight == 40
StartX == 3
StartY == 5

WALL == "#"
FLOOR == "."
\* The glyphs outside ASCII are written by name: "block" is the full block,
\* "medium" and "light" the medium and light shades, "bullet" the bullet.
PLAYER == "block"
BLANK == " "

PIXEL_MAP ==
  << <<"block", "block", "medium", "light", "bullet">>,
     <<"bullet", ".", ".", "_", "_">> >>

\* round(sin(a * pi / 480) * SinScale) for a = 0 .. 240
SinTable ==
  <<
    0, 65, 131, 196, 262, 327, 393, 458, 523, 589, 654, 719,
    785, 850, 915, 980, 1045, 1110, 1175, 1240, 1305, 1370, 1435, 1500,
    1564, 1629, 1693, 1758, 1822, 1887, 1951, 2015, 2079, 2143, 2207, 2271,
    2334, 2398, 2462, 2525, 2588, 2651, 2714, 2777, 2840, 2903, 2965, 3028,
    3090, 3152, 3214, 3276, 3338, 3400, 3461, 3523, 3584, 3645, 3706, 3766,
    3827, 3887, 3947, 4007, 4067, 4127, 4187, 4246, 4305, 4364, 4423, 4481,
    4540, 4598, 4656, 4714, 4772, 4829, 4886, 4943, 5000, 5057, 5113, 5169,
    5225, 5281, 5336, 5391, 5446, 5501, 5556, 5610, 5664, 5718, 5771, 5825,
    5878, 5931, 5983, 6036, 6088, 6139, 6191, 6242, 6293, 6344, 6394, 6445,
    6494, 6544, 6593, 6643, 6691, 6740, 6788, 6836, 6884, 6931, 6978, 7025,
    7071, 7117, 7163, 7209, 7254, 7299, 7343, 7387, 7431, 7475, 7518, 7561,
    7604, 7646, 7688, 7730, 7771, 7812, 7853, 7894, 7934, 7973, 8013, 8052,
    8090, 8128, 8166, 8204, 8241, 8278, 8315, 8351, 8387, 8422, 8457, 8492,
    8526, 8560, 8594, 8627, 8660, 8693, 8725, 8757, 8788, 8819, 8850, 8880,
    8910, 8940, 8969, 8997, 9026, 9054, 9081, 9109, 9135, 9162, 9188, 9214,
    9239, 9264, 9288, 9312, 9336, 9359, 9382, 9404, 9426, 9448, 9469, 9490,
    9511, 9531, 9550, 9569, 9588, 9607, 9625, 9642, 9659, 9676, 9692, 9708,
    9724, 9739, 9753, 9768, 9781, 9795, 9808, 9820, 9833, 9844, 9856, 9866,
    9877, 9887, 9897, 9906, 9914, 9923, 9931, 9938, 9945, 9952, 9958, 9964,
    9969, 9974, 9979, 9983, 9986, 9990, 9992, 9995, 9997, 9998, 9999, 10000,
    10000
  >>

\* f32::sin of an angle of a ticks, scaled by SinScale
Sin(a) ==
  LET r == a % FullTurn
  IN  IF r <= 240 THEN SinTable[r + 1]
      ELSE IF r <= 480 THEN SinTable[480 - r + 1]
      ELSE IF r <= 720 THEN -SinTable[r - 480 + 1]
      ELSE -SinTable[960 - r + 1]

\* f32::cos of an angle of a ticks, scaled by SinScale
Cos(a) == Sin(a + 240)

\* Rust's % on floats: the remainder has the sign of the dividend
Rem(a, b) == IF a >= 0 THEN a % b ELSE -((-a) % b)

\* f32 as usize: toward zero, saturating at 0 for a negative value
AsUsize(v) == IF v < 0 THEN 0 ELSE v \div Cell

\* f32::floor
Floor(v) == (v \div Cell) * Cell

Min(a, b) == IF a <= b THEN a ELSE b

(***************************************************************************)
(* CharMatrix                                                              *)
(***************************************************************************)
\* CharMatrix::new(width, height): every cell a blank
CharMatrixNew(width, height) ==
  [width |-> width, height |-> height,
   buf |-> [r \in 0 .. height - 1 |-> [c \in 0 .. width - 1 |-> BLANK]]]

\* whether buf[r][c] exists: an index outside panics
InBuf(g, r, c) == r \in DOMAIN g.buf /\ c \in DOMAIN g.buf[r]

\* the rows of the map literal of main
MapRows ==
  <<
    <<"#","#","#","#","#","#","#","#","#","#",".",".",".",".","#","#","#","#","#">>,
    <<"#",".",".",".",".",".",".",".",".",".",".",".",".",".",".",".",".",".","#">>,
    <<"#",".",".",".",".","#",".",".",".",".",".",".",".",".",".",".",".",".","#">>,
    <<"#",".",".",".",".","#",".",".",".",".",".",".",".",".",".",".",".",".","#">>,
    <<"#",".",".",".",".","#",".",".",".",".",".",".",".",".",".",".",".",".","#">>,
    <<"#",".",".",".",".","#",".",".",".",".",".",".",".",".",".",".",".",".","#">>,
    <<"#",".",".",".",".","#","#","#","#","#","#",".",".",".",".",".",".",".","#">>,
    <<".",".",".",".",".",".",".",".",".",".","#",".",".",".",".",".",".",".","#">>,
    <<".",".",".",".",".",".",".",".",".",".","#",".",".",".",".",".",".",".","#">>,
    <<"#",".",".",".",".",".",".",".",".",".","#",".",".",".",".",".",".",".","#">>,
    <<"#",".",".",".",".",".",".",".",".",".","#",".",".",".",".",".",".",".","#">>,
    <<"#","#","#","#","#","#","#","#","#","#","#",".",".",".",".",".",".",".","#">>,
    <<"#",".",".",".",".",".",".",".",".",".","#",".",".",".",".",".",".",".","#">>,
    <<"#",".",".",".",".",".",".",".",".",".","#",".",".",".",".",".",".",".","#">>,
    <<"#",".",".",".",".",".",".",".",".",".","#",".",".",".",".",".",".",".","#">>,
    <<"#",".",".",".",".",".",".",".",".",".","#",".",".",".",".",".",".",".","#">>,
    <<"#",".",".",".",".",".",".",".",".",".","#",".",".",".",".",".",".",".","#">>,
    <<"#",".",".",".",".",".",".",".",".",".","#",".",".",".",".",".",".",".","#">>,
    <<"#",".",".",".",".",".",".",".",".",".",".",".",".",".",".",".",".",".",".">>,
    <<"#","#","#","#","#","#","#","#","#","#","#","#","#","#","#","#","#","#","#">>
  >>

\* the map of main: CharMatrix::new(19, 20) with buf replaced by the literal
MainMap ==
  [width |-> MapWidth, height |-> MapHeight,
   buf |-> [r \in 0 .. MapHeight - 1 |-> [c \in 0 .. MapWidth - 1 |-> MapRows[r + 1][c + 1]]]]

\* the screen of main: CharMatrix::new(160, 40), every cell then set to a full block
MainScreen ==
  [width |-> ScreenWidth, height |-> ScreenHeight,
   buf |-> [r \in 0 .. ScreenHeight - 1 |-> [c \in 0 .. ScreenWidth - 1 |-> "block"]]]

\* a grid that no longer exists (main has returned or unwound)
Dropped == [width |-> 0, height |-> 0, buf |-> <<>>]

(***************************************************************************)
(* Player                                                                  *)
(***************************************************************************)
\* Player::new: marks the cell of the start position
PlayerNewMap(px, py, m) == [m EXCEPT !.buf[AsUsize(py)][AsUsize(px)] = PLAYER]

\* the displacement of mv(dir)
MvDx(prot, dir) == ((-1) * dir * Sin(prot) * movt_step) \div SinScale
MvDy(prot, dir) == ((-1) * dir * Cos(prot) * movt_step) \div SinScale

\* new_pos of mv(dir): <<column, row>>
NewPos(px, py, prot, dir) ==
  <<AsUsize(px + MvDx(prot, dir)), AsUsize(py + MvDy(prot, dir))>>

\* A faulty variant of MvAccepts: the wall test is lost.
MvAccepts_no_wall_test(chr, new_pos, m) ==
  new_pos[1] < m.width /\ new_pos[2] < m.width

\* the condition under which mv accepts the move, chr being the cell read
MvAccepts(chr, new_pos, m) ==
  chr # WALL /\ new_pos[1] < m.width /\ new_pos[2] < m.width

\* A faulty variant of mv: the cell the player leaves keeps its marker.
mv_keeps_marker(px, py, prot, m, dir) ==
  LET dx == MvDx(prot, dir)
      dy == MvDy(prot, dir)
      new_pos == NewPos(px, py, prot, dir)
  IN  IF ~InBuf(m, new_pos[2], new_pos[1])
      THEN [panic |-> TRUE, x |-> px, y |-> py, rot |-> prot, map |-> m]
      ELSE IF MvAccepts(m.buf[new_pos[2]][new_pos[1]], new_pos, m)
      THEN [panic |-> FALSE, x |-> px + dx, y |-> py + dy, rot |-> prot,
            map |-> IF <<AsUsize(px), AsUsize(py)>> # new_pos
                    THEN [m EXCEPT !.buf[new_pos[2]][new_pos[1]] = PLAYER]
                    ELSE m]
      ELSE [panic |-> FALSE, x |-> px, y |-> py, rot |-> prot, map |-> m]

\* A faulty variant of mv: the position is updated only when the cell changes.
mv_within_cell_lost(px, py, prot, m, dir) ==
  LET dx == MvDx(prot, dir)
      dy == MvDy(prot, dir)
      new_pos == NewPos(px, py, prot, dir)
  IN  IF ~InBuf(m, new_pos[2], new_pos[1])
      THEN [panic |-> TRUE, x |-> px, y |-> py, rot |-> prot, map |-> m]
      ELSE IF /\ MvAccepts(m.buf[new_pos[2]][new_pos[1]], new_pos, m)
              /\ <<AsUsize(px), AsUsize(py)>> # new_pos
      THEN [panic |-> FALSE, x |-> px + dx, y |-> py + dy, rot |-> prot,
            map |-> [m EXCEPT !.buf[new_pos[2]][new_pos[1]] = PLAYER,
                              !.buf[AsUsize(py)][AsUsize(px)] = FLOOR]]
      ELSE [panic |-> FALSE, x |-> px, y |-> py, rot |-> prot, map |-> m]

\* Player::mv(dir) on a player at (px, py) facing prot with map m: the player
\* after it, panic when the read of the candidate cell is out of range
mv(px, py, prot, m, dir) ==
  LET dx == MvDx(prot, dir)
      dy == MvDy(prot, dir)
      new_pos == NewPos(px, py, prot, dir)
  IN  IF ~InBuf(m, new_pos[2], new_pos[1])
      THEN [panic |-> TRUE, x |-> px, y |-> py, rot |-> prot, map |-> m]
      ELSE IF MvAccepts(m.buf[new_pos[2]][new_pos[1]], new_pos, m)
      THEN [panic |-> FALSE, x |-> px + dx, y |-> py + dy, rot |-> prot,
            map |-> IF <<AsUsize(px), AsUsize(py)>> # new_pos
                    THEN [m EXCEPT !.buf[new_pos[2]][new_pos[1]] = PLAYER,
                                   !.buf[AsUsize(py)][AsUsize(px)] = FLOOR]
                    ELSE m]
      ELSE [panic |-> FALSE, x |-> px, y |-> py, rot |-> prot, map |-> m]

\* Player::rotate(rotation): the player after it (the map is not touched)
rotate(px, py, prot, rotation) ==
  [x |-> Floor(px), y |-> Floor(py), rot |-> Rem(prot + rotation, FullTurn)]

\* the angle of the ray of screen column i: pos after i + 1 additions of drot
RayAngle(prot, scr, i) == prot + Fov + (i + 1) * (Fov \div scr.width)

\* the condition of the while loop of render at the point (rx, ry)
RayInside(rx, ry, m) ==
  0 <= rx /\ rx < m.width * Cell /\ 0 <= ry /\ ry < m.height * Cell

\* Iterations of the while loop that are evaluated in one nesting.
MarchRun == 20

\* at most n iterations of the while loop of render from the point (rx, ry)
\* with steps counted so far, the step being (sx, sy): the point and the count
\* after them and whether the loop goes on; "stopped" when its condition is
\* false, "panic" when map[y][x] is out of range, "cut" when the model stops
\* following the ray
RECURSIVE MarchSome(_, _, _, _, _, _, _)
MarchSome(rx, ry, sx, sy, m, steps, n) ==
  IF ~RayInside(rx, ry, m)
  THEN [steps |-> steps, x |-> rx, y |-> ry, loop |-> "stopped"]
  ELSE IF ~InBuf(m, AsUsize(ry), AsUsize(rx))
  THEN [steps |-> steps, x |-> rx, y |-> ry, loop |-> "panic"]
  ELSE IF m.buf[AsUsize(ry)][AsUsize(rx)] = WALL
  THEN [steps |-> steps, x |-> rx, y |-> ry, loop |-> "stopped"]
  ELSE IF steps >= MaxRaySteps
  THEN [steps |-> steps, x |-> rx, y |-> ry, loop |-> "cut"]
  ELSE IF n = 0
  THEN [steps |-> steps, x |-> rx, y |-> ry, loop |-> "going"]
  ELSE MarchSome(rx + sx, ry + sy, sx, sy, m, steps + 1, n - 1)

\* the while loop of render from (rx, ry), MarchRun iterations at a time
RECURSIVE March(_, _, _, _, _, _)
March(rx, ry, sx, sy, m, steps) ==
  CHOOSE r \in
    {IF part.loop = "going" THEN March(part.x, part.y, sx, sy, m, part.steps) ELSE part :
       part \in {MarchSome(rx, ry, sx, sy, m, steps, MarchRun)}} : TRUE

\* A faulty variant of CastRay: the step is multiplied by 6, not divided.
CastRay_long_step(px, py, pos, m) ==
  March(px, py,
        ((Sin(pos) * movt_step) \div SinScale) * 6,
        ((Cos(pos) * movt_step) \div SinScale) * 6,
        m, 0)

\* the ray of angle pos from (px, py): the step is coeff * movt_step / 6.0
CastRay(px, py, pos, m) ==
  March(px, py,
        ((Sin(pos) * movt_step) \div SinScale) \div 6,
        ((Cos(pos) * movt_step) \div SinScale) \div 6,
        m, 0)

Dist(steps) == steps \div 15

TilesForCeiling(steps, scr) == Min(Dist(steps) * 10, scr.width \div 5) \div 4

\* screen.height - tiles_for_ceiling in usize falls below zero
Underflows(steps, scr) == scr.height < TilesForCeiling(steps, scr)

\* A faulty variant of Pixel: the comparisons are strict.
Pixel_strict(j, steps, scr) ==
  IF j < TilesForCeiling(steps, scr) THEN BLANK
  ELSE IF j < scr.height - TilesForCeiling(steps, scr)
  THEN PIXEL_MAP[1][Min(Dist(steps), 4) + 1]
  ELSE PIXEL_MAP[2][Min(Dist(steps), 4) + 1]

\* what render writes to row j of a column whose ray took steps
Pixel(j, steps, scr) ==
  IF j <= TilesForCeiling(steps, scr) THEN BLANK
  ELSE IF j <= scr.height - TilesForCeiling(steps, scr)
  THEN PIXEL_MAP[1][Min(Dist(steps), 4) + 1]
  ELSE PIXEL_MAP[2][Min(Dist(steps), 4) + 1]

\* the rays of the columns lo .. hi of one frame, in column order
RECURSIVE RaysOf(_, _, _, _, _, _, _)
RaysOf(lo, hi, px, py, prot, m, scr) ==
  IF lo > hi THEN <<>>
  ELSE IF lo = hi THEN <<CastRay(px, py, RayAngle(prot, scr, lo), m)>>
  ELSE RaysOf(lo, (lo + hi) \div 2, px, py, prot, m, scr)
         \o RaysOf((lo + hi) \div 2 + 1, hi, px, py, prot, m, scr)

\* the screen after the loops of render, rays being the frame's rays (the ray
\* of column i is rays[i + 1]): row j of column i is written for i in
\* 0 .. width - 1 and j in 0 .. height - 1
Painted(scr, rays) ==
  [scr EXCEPT !.buf =
     [j \in DOMAIN scr.buf |->
        [i \in DOMAIN scr.buf[j] |->
           IF i \in 0 .. scr.width - 1 /\ j \in 0 .. scr.height - 1
           THEN Pixel(j, rays[i + 1].steps, scr)
           ELSE scr.buf[j][i]]]]

\* Player::render: the frame, or panic on an index out of range or an
\* underflow of the subtraction
render(px, py, prot, m, scr) ==
  CHOOSE f \in
    {[panic |-> \E i \in DOMAIN rays :
                  rays[i].loop = "panic" \/ Underflows(rays[i].steps, scr),
      screen |-> Painted(scr, rays)] : rays \in {RaysOf(0, scr.width - 1, px, py, prot, m, scr)}} : TRUE

NoRay == [pos |-> 0, state |-> "none"]

(***************************************************************************)
(* main: the session                                                       *)
(***************************************************************************)
Init ==
  /\ x = 0 /\ y = 0 /\ rot = 0
  /\ map = Dropped /\ screen = Dropped
  /\ pc = "start" /\ exit = "none"
  /\ raw_mode = FALSE /\ cursor = "shown"
  /\ shows = 0 /\ disables = 0 /\ keys = 0
  /\ ray = NoRay

\* enable_raw_mode()? fails: main returns the error
EnableRawModeErr ==
  /\ pc = "start"
  /\ pc' = "exited" /\ exit' = "enable_err"
  /\ UNCHANGED <<x, y, rot, map, screen, raw_mode, cursor, shows, disables, keys, ray>>

\* main up to the loop: raw mode, the grids, the player, the cursor hidden;
\* scr is the screen the session starts with
Setup(next, scr) ==
  /\ pc = "start"
  /\ raw_mode' = TRUE
  /\ screen' = scr
  /\ x' = StartX * Cell /\ y' = StartY * Cell /\ rot' = 0
  /\ map' = PlayerNewMap(StartX * Cell, StartY * Cell, MainMap)
  /\ cursor' = "hidden"
  /\ pc' = next
  /\ UNCHANGED <<exit, shows, disables, keys, ray>>

\* main returns or unwinds: its locals are dropped
Leave(how) ==
  /\ pc' = "exited" /\ exit' = how
  /\ x' = 0 /\ y' = 0 /\ rot' = 0 /\ map' = Dropped /\ screen' = Dropped

\* the model follows an accepted move only this far below zero
Followed(o) == o.x >= -(MinCoord * Cell) /\ o.y >= -(MinCoord * Cell)

\* 'w' and 's': player.mv(dir)
KeyMove(dir, next) ==
  /\ pc = "read"
  /\ \E o \in {mv(x, y, rot, map, dir)} :
         IF o.panic
         THEN /\ Leave("panic")
              /\ UNCHANGED <<raw_mode, cursor, shows, disables, ray>>
         ELSE /\ Followed(o)
              /\ x' = o.x /\ y' = o.y /\ rot' = o.rot /\ map' = o.map
              /\ pc' = next
              /\ UNCHANGED <<screen, exit, raw_mode, cursor, shows, disables, ray>>

\* 'a' and 'd': player.rotate(rotation)
KeyRotate(rotation, next) ==
  /\ pc = "read"
  /\ \E o \in {rotate(x, y, rot, rotation)} :
       x' = o.x /\ y' = o.y /\ rot' = o.rot
  /\ pc' = next
  /\ UNCHANGED <<map, screen, exit, raw_mode, cursor, shows, disables, ray>>

\* any other key or event
KeyOtherTo(next) ==
  /\ pc = "read"
  /\ pc' = next
  /\ UNCHANGED <<x, y, rot, map, screen, exit, raw_mode, cursor, shows, disables, ray>>

\* Esc: the loop breaks, the cursor is shown and raw mode disabled, Ok(())
KeyEsc ==
  /\ pc = "read"
  /\ cursor' = "shown" /\ shows' = shows + 1
  /\ raw_mode' = FALSE /\ disables' = disables + 1
  /\ Leave("ok")
  /\ UNCHANGED <<keys, ray>>

\* read()? fails: main returns the error at once
ReadErr ==
  /\ pc = "read"
  /\ Leave("read_err")
  /\ UNCHANGED <<raw_mode, cursor, shows, disables, keys, ray>>

KeyW == KeyMove(1, "read") /\ UNCHANGED keys
KeyS == KeyMove(-1, "read") /\ UNCHANGED keys
KeyA == KeyRotate(RotStep, "read") /\ UNCHANGED keys
KeyD == KeyRotate(-RotStep, "read") /\ UNCHANGED keys
KeyOther == KeyOtherTo("read") /\ UNCHANGED keys
\* Spec leaves render out of the loop, and with it the screen
Start == Setup("read", Dropped)

Next ==
  \/ EnableRawModeErr
  \/ Start
  \/ KeyW
  \/ KeyS
  \/ KeyA
  \/ KeyD
  \/ KeyOther
  \/ KeyEsc
  \/ ReadErr

Spec == Init /\ [][Next]_vars

(***************************************************************************)
(* main with its frames: every pass of the loop renders before it reads,   *)
(* for sessions of at most MaxKeys key events.                             *)
(***************************************************************************)
FrameStart == Setup("render", MainScreen)

\* player.render() and player.print(): the frame is painted and written out
RenderFrame ==
  /\ pc = "render"
  /\ \E f \in {render(x, y, rot, map, screen)} :
       IF f.panic
       THEN /\ Leave("panic")
            /\ UNCHANGED <<raw_mode, cursor, shows, disables, keys, ray>>
       ELSE /\ screen' = f.screen
            /\ pc' = "read"
            /\ UNCHANGED <<x, y, rot, map, exit, raw_mode, cursor, shows, disables, keys, ray>>

Counted == keys < MaxKeys /\ keys' = keys + 1

FrameKeyW == KeyMove(1, "render") /\ Counted
FrameKeyS == KeyMove(-1, "render") /\ Counted
FrameKeyA == KeyRotate(RotStep, "render") /\ Counted
FrameKeyD == KeyRotate(-RotStep, "render") /\ Counted
FrameKeyOther == KeyOtherTo("render") /\ Counted

FrameNext ==
  \/ EnableRawModeErr
  \/ FrameStart
  \/ RenderFrame
  \/ FrameKeyW
  \/ FrameKeyS
  \/ FrameKeyA
  \/ FrameKeyD
  \/ FrameKeyOther
  \/ KeyEsc
  \/ ReadErr

FrameSpec == Init /\ [][FrameNext]_vars

(***************************************************************************)
(* The ray marching of render on closed maps: the outer ring all walls.    *)
(***************************************************************************)
\* the closed maps of width w and height h whose interior is floor but for
\* the cells of inner
ClosedMap(w, h, inner) ==
  [width |-> w, height |-> h,
   buf |-> [r \in 0 .. h - 1 |-> [c \in 0 .. w - 1 |->
              IF r = 0 \/ r = h - 1 \/ c = 0 \/ c = w - 1 \/ <<r, c>> \in inner
              THEN WALL ELSE FLOOR]]]

Interior(w, h) == (1 .. h - 2) \X (1 .. w - 2)

ClosedMaps ==
  UNION {{ClosedMap(w, h, inner) :
             inner \in {{}} \cup {{cell} : cell \in Interior(w, h)}} :
         w \in 3 .. MaxDim, h \in 3 .. MaxDim}

\* a closed map, a player at the near corner, the middle or the far corner of
\* an interior cell that is not a wall, and the angle of a ray
RayInit ==
  /\ map \in ClosedMaps
  /\ \E r \in 1 .. map.height - 2, c \in 1 .. map.width - 2 :
       /\ map.buf[r][c] # WALL
       /\ x \in {c * Cell, c * Cell + Cell \div 2, c * Cell + Cell - 1}
       /\ y \in {r * Cell, r * Cell + Cell \div 2, r * Cell + Cell - 1}
  /\ rot = 0
  /\ ray \in {[pos |-> a, state |-> "cast"] : a \in {k \in 0 .. FullTurn - 1 : k % AngleStride = 0}}
  /\ screen = Dropped
  /\ pc = "render" /\ exit = "none"
  /\ raw_mode = TRUE /\ cursor = "hidden"
  /\ shows = 0 /\ disables = 0 /\ keys = 0

\* the while loop of render for the ray
MarchRay ==
  /\ ray.state = "cast"
  /\ \E hit \in {CastRay(x, y, ray.pos, map)} :
       ray' = [pos |-> ray.pos, state |-> "marched", steps |-> hit.steps,
               x |-> hit.x, y |-> hit.y, loop |-> hit.loop]
  /\ UNCHANGED <<x, y, rot, map, screen, pc, exit, raw_mode, cursor, shows, disables, keys>>

RayNext == MarchRay

RaySpec == RayInit /\ [][RayNext]_vars

(***************************************************************************)
(* Properties.                                                             *)
(***************************************************************************)
\* the cell mv(dir) reads in the current state: <<column, row>>
Candidate(dir) == NewPos(x, y, rot, dir)

CandidateInMap(dir) == InBuf(map, Candidate(dir)[2], Candidate(dir)[1])

CandidateChar(dir) == map.buf[Candidate(dir)[2]][Candidate(dir)[1]]

\* the cell of the player: <<column, row>>
Here == <<AsUsize(x), AsUsize(y)>>

\* the grid has the rows and columns its width and height say
Shaped(g) ==
  /\ DOMAIN g.buf = 0 .. g.height - 1
  /\ \A r \in DOMAIN g.buf : DOMAIN g.buf[r] = 0 .. g.width - 1

\* C1: in every state of a session no grid access is out of range: the cell of
\* the player and the candidate cell that mv reads, forward and backward, are
\* cells of the map, the map has the shape that the bounds tests of render
\* assume, and no command has panicked.
C1_AccessInBounds ==
  /\ exit # "panic"
  /\ pc = "read" =>
       /\ Shaped(map)
       /\ InBuf(map, Here[2], Here[1])
       /\ \A dir \in {1, -1} : CandidateInMap(dir)

\* C2: every step of a session that leaves the player in the loop leaves the
\* player marker in the map cell at the player's truncated position (after
\* construction, after mv, after rotate), and when the step changes the
\* player's cell it leaves floor in the cell vacated.
C2_MarkerFollowsPlayer ==
  [][pc' = "read" =>
       /\ map'.buf[AsUsize(y')][AsUsize(x')] = PLAYER
       /\ (pc = "read" /\ <<AsUsize(x'), AsUsize(y')>> # Here) =>
            map'.buf[Here[2]][Here[1]] = FLOOR]_vars

\* C2 witness: the player has moved from its start cell (5, 3) to (4, 3).
C2_Witness ==
  /\ pc = "read"
  /\ Here = <<StartX, StartY - 1>>
  /\ map.buf[StartY - 1][StartX] = PLAYER
  /\ map.buf[StartY][StartX] = FLOOR

\* C3: in every state of a session the facing is normalized: 0 <= rot < 2 pi.
C3_FacingNormalized == pc = "read" => 0 <= rot /\ rot < FullTurn

\* C4: in every state of a session and for both directions, when the candidate
\* cell of mv is a wall, mv changes nothing (position, facing, map) and does
\* not panic.
C4_WallRejects ==
  pc = "read" =>
    \A dir \in {1, -1} :
      \A c \in {Candidate(dir)} :
        (InBuf(map, c[2], c[1]) /\ map.buf[c[2]][c[1]] = WALL) =>
          mv(x, y, rot, map, dir) =
            [panic |-> FALSE, x |-> x, y |-> y, rot |-> rot, map |-> map]

\* C4 witness: the player has walked up to the wall of row 0 and faces it.
C4_Witness ==
  /\ pc = "read"
  /\ rot = 0 /\ x = StartX * Cell /\ y = Cell
  /\ CandidateChar(1) = WALL
  /\ mv(x, y, rot, map, 1).y = y

\* C5: in every state of a session and for both directions, when the candidate
\* cell of mv is a cell of the map and not a wall, mv adds the displacement to
\* x and y and keeps the facing; when the candidate cell is another cell than
\* the player's, the map changes in exactly two cells (the old one from the
\* marker to floor, the new one to the marker) and otherwise not at all.
C5_MoveAccepted ==
  pc = "read" =>
    \A dir \in {1, -1} :
      \A c \in {Candidate(dir)} :
        (/\ InBuf(map, c[2], c[1])
         /\ c[1] < map.width /\ c[2] < map.height
         /\ map.buf[c[2]][c[1]] # WALL) =>
          \A o \in {mv(x, y, rot, map, dir)} :
            /\ ~o.panic
            /\ o.x = x + MvDx(rot, dir)
            /\ o.y = y + MvDy(rot, dir)
            /\ o.rot = rot
            /\ IF c # Here
               THEN /\ map.buf[Here[2]][Here[1]] # FLOOR
                    /\ map.buf[c[2]][c[1]] # PLAYER
                    /\ o.map = [map EXCEPT !.buf[c[2]][c[1]] = PLAYER,
                                           !.buf[Here[2]][Here[1]] = FLOOR]
               ELSE o.map = map

\* C5 witness: a move within the cell (3, 4.5) followed by one into the next
\* cell has brought the player to (3, 3.5), the marker with it.
C5_Witness ==
  /\ pc = "read"
  /\ rot = 0 /\ x = StartX * Cell /\ y = (StartY - 2) * Cell + Cell \div 2
  /\ map.buf[StartY - 2][StartX] = PLAYER
  /\ map.buf[StartY - 1][StartX] = FLOOR

\* n rotations by the same step
RECURSIVE Turns(_, _, _, _, _)
Turns(px, py, prot, rotation, n) ==
  IF n = 0 THEN [x |-> px, y |-> py, rot |-> prot]
  ELSE IF n = 1 THEN rotate(px, py, prot, rotation)
  ELSE CHOOSE p \in {Turns(o.x, o.y, o.rot, rotation, n - n \div 2) :
                       o \in {Turns(px, py, prot, rotation, n \div 2)}} : TRUE

\* C6: in every state of a session, 64 rotations by the same step, left or
\* right, return the facing to its value and leave the position at the floor
\* of the position before them.
C6_FullTurnRestoresFacing ==
  pc = "read" =>
    \A rotation \in {RotStep, -RotStep} :
      Turns(x, y, rot, rotation, 64) = [x |-> Floor(x), y |-> Floor(y), rot |-> rot]

\* C7: on a closed map the ray from an interior position that is not a wall
\* stops within 12 * (width + height) steps, and where it stops it is inside
\* the map on a wall cell.
C7_RayStopsOnWall ==
  ray.state = "marched" =>
    /\ ray.loop = "stopped"
    /\ ray.steps <= 12 * (map.width + map.height)
    /\ RayInside(ray.x, ray.y, map)
    /\ map.buf[AsUsize(ray.y)][AsUsize(ray.x)] = WALL

\* C7 witness: a ray that crossed more than a cell before it stopped on a
\* corner cell of the ring.
C7_Witness ==
  /\ ray.state = "marched" /\ ray.loop = "stopped"
  /\ ray.steps > 12
  /\ AsUsize(ray.x) = map.width - 1 /\ AsUsize(ray.y) = map.height - 1
  /\ map.buf[AsUsize(ray.y)][AsUsize(ray.x)] = WALL

\* C8: when the session has ended after raw mode was enabled (Esc, or a failed
\* read), the cursor is shown and raw mode is off, each done exactly once.
C8_TerminalRestored ==
  (pc = "exited" /\ exit \in {"ok", "read_err"}) =>
    /\ cursor = "shown" /\ shows = 1
    /\ raw_mode = FALSE /\ disables = 1

\* C9: in every state of a session the coordinates of the player are not
\* negative.
C9_NonNegative == pc = "read" => x >= 0 /\ y >= 0

\* the character C10 gives row j of a column whose ray took steps
C10_Expected(j, steps) ==
  LET dist == steps \div 15
      ceiling == Min(dist * 10, ScreenWidth \div 5) \div 4
      shade == Min(dist, 4) + 1
  IN  IF j <= ceiling THEN " "
      ELSE IF j <= ScreenHeight - ceiling
      THEN <<"block", "block", "medium", "light", "bullet">>[shade]
      ELSE <<"bullet", ".", ".", "_", "_">>[shade]

\* C10: after render every row of every column of the 160 x 40 screen holds
\* the character its ray's step count gives: blank down to the ceiling row,
\* the wall shade down to row height - ceiling, the floor shade below; and
\* for no step count does height - ceiling fall below zero.
C10_ColumnsPainted ==
  pc = "read" =>
    /\ \A i \in 0 .. ScreenWidth - 1 :
         \A hit \in {CastRay(x, y, RayAngle(rot, screen, i), map)} :
           \A j \in 0 .. ScreenHeight - 1 :
             screen.buf[j][i] = C10_Expected(j, hit.steps)
    /\ \A steps \in 0 .. MaxRaySteps :
         /\ ~Underflows(steps, screen)
         /\ \A j \in 0 .. ScreenHeight - 1 :
              Pixel(j, steps, screen) = C10_Expected(j, steps)

\* C10 witness: a frame after a key with a column of all three bands: blank at
\* the top, a wall shade in the middle, a floor shade at the bottom.
C10_Witness ==
  /\ pc = "read" /\ keys > 0
  /\ \E i \in 0 .. ScreenWidth - 1 :
       /\ screen.buf[0][i] = BLANK
       /\ screen.buf[ScreenHeight \div 2][i] = "light"
       /\ screen.buf[ScreenHeight - 1][i] = "_"

====
